---- MODULE Spec2Model ----
(***************************************************************************)
(* A model of the two build-time scripts of the repository:                *)
(*   scripts/validate-react-versions.js  (the version validator)           *)
(*   the runtime smoke test (testRuntime)                                  *)
(* Each script is one process run.  SpecValidator is a run of the          *)
(* validator, SpecSmoke a run of the smoke test.                           *)
(***************************************************************************)
EXTENDS Naturals, Sequences, FiniteSets

VARIABLES
    \* ---- validator ----
    vpc,          \* position of validateReactVersions
    manifest,     \* package.json as found on disk
    reactVer,     \* getVersionNumber(reactVersion)
    reactDomVer,  \* getVersionNumber(reactDomVersion)
    installed,    \* the two installed package.json files as found on disk
    vout,         \* what the validator printed, in order
    vexit,        \* the validator's exit code, meaningful once vpc = "exited"
    \* ---- smoke test ----
    pc,           \* position of testRuntime
    buildExists,  \* fs.existsSync(BUILD_DIR)
    serve,        \* the spawned static server
    delivered,    \* the events of the request delivered so far
    aborted,      \* req.destroy() was called
    data,         \* the response body buffered so far
    testPromise,  \* the state of testPromise
    out,          \* what the smoke test printed, in order
    exitCode      \* the smoke test's exit code, meaningful once pc = "exited"

validatorVars == <<vpc, manifest, reactVer, reactDomVer, installed, vout, vexit>>
smokeVars == <<pc, buildExists, serve, delivered, aborted, data, testPromise, out, exitCode>>
vars == <<validatorVars, smokeVars>>

(***************************************************************************)
(* Bounds of the model.                                                    *)
(***************************************************************************)
MaxMinor == 1    \* minor versions 0..MaxMinor
MaxPatch == 1    \* patch versions 0..MaxPatch
MaxChunks == 2   \* the response body arrives in at most MaxChunks chunks

(***************************************************************************)
(* Strings are sequences of one-character strings.                         *)
(***************************************************************************)
Digit == {"0", "1", "2", "3", "4", "5", "6", "7", "8", "9"}

DigitChar == <<"0", "1", "2", "3", "4", "5", "6", "7", "8", "9">>

DigitVal(c) == CHOOSE d \in 0..9 : DigitChar[d + 1] = c

RECURSIVE NumStr(_)
NumStr(n) == IF n < 10 THEN <<DigitChar[n + 1]>>
             ELSE NumStr(n \div 10) \o <<DigitChar[(n % 10) + 1]>>

\* parseInt of a string of decimal digits
RECURSIVE parseInt(_)
parseInt(s) == IF Len(s) = 0 THEN 0
               ELSE 10 * parseInt(SubSeq(s, 1, Len(s) - 1)) + DigitVal(s[Len(s)])

\* String.prototype.startsWith
startsWith(s, p) == Len(s) >= Len(p) /\ SubSeq(s, 1, Len(p)) = p

\* The length of the longest run of digits of s that starts at position i.
DigitRun(s, i) ==
    LET ends == {j \in i..(Len(s) + 1) : \A k \in i..(j - 1) : s[k] \in Digit}
    IN  (CHOOSE j \in ends : \A k \in ends : k <= j) - i

NoMatch == [ok |-> FALSE, major |-> 0, minor |-> 0, patch |-> 0]

\* An attempt of /(\d+)\.(\d+)\.(\d+)/ at position i of s.  \d+ is greedy,
\* and giving a digit back never helps, since "." must follow the group.
MatchAt(s, i) ==
    LET n1 == DigitRun(s, i)
        d1 == i + n1
        n2 == IF d1 < Len(s) THEN DigitRun(s, d1 + 1) ELSE 0
        d2 == d1 + 1 + n2
        n3 == IF d2 < Len(s) THEN DigitRun(s, d2 + 1) ELSE 0
    IN  IF /\ n1 >= 1 /\ d1 <= Len(s) /\ s[d1] = "."
           /\ n2 >= 1 /\ d2 <= Len(s) /\ s[d2] = "."
           /\ n3 >= 1
        THEN [ok |-> TRUE,
              major |-> parseInt(SubSeq(s, i, d1 - 1)),
              minor |-> parseInt(SubSeq(s, d1 + 1, d2 - 1)),
              patch |-> parseInt(SubSeq(s, d2 + 1, d2 + n3))]
        ELSE NoMatch

\* A mutant of getVersionNumber: the pattern anchored at the start, /^(\d+)\.(\d+)\.(\d+)/
getVersionNumberAnchored(versionString) ==
    IF Len(versionString) >= 1 THEN MatchAt(versionString, 1) ELSE NoMatch

\* A mutant of getVersionNumber: the pattern with two groups only, /(\d+)\.(\d+)/
getVersionNumberTwoGroups(versionString) ==
    LET twoAt(i) ==
            LET n1 == DigitRun(versionString, i)
                d1 == i + n1
                n2 == IF d1 < Len(versionString) THEN DigitRun(versionString, d1 + 1) ELSE 0
            IN  IF n1 >= 1 /\ d1 <= Len(versionString) /\ versionString[d1] = "." /\ n2 >= 1
                THEN [ok |-> TRUE,
                      major |-> parseInt(SubSeq(versionString, i, d1 - 1)),
                      minor |-> parseInt(SubSeq(versionString, d1 + 1, d1 + n2)),
                      patch |-> 0]
                ELSE NoMatch
        hits == {i \in 1..Len(versionString) : twoAt(i).ok}
    IN  IF hits = {} THEN NoMatch
        ELSE twoAt(CHOOSE i \in hits : \A j \in hits : i <= j)

\* getVersionNumber: the leftmost match of the pattern, or null (NoMatch).
getVersionNumber(versionString) ==
    LET hits == {i \in 1..Len(versionString) : MatchAt(versionString, i).ok}
    IN  IF hits = {} THEN NoMatch
        ELSE MatchAt(versionString, CHOOSE i \in hits : \A j \in hits : i <= j)

(***************************************************************************)
(* The inputs of the validator.                                            *)
(***************************************************************************)
BadReactMajor == 19
BadReactDomMajor == 17

Majors == BadReactDomMajor..BadReactMajor

Prefixes == {<<>>, <<"^">>, <<"~">>, <<">", "=">>}

Triple(ma, mi, pa) == NumStr(ma) \o <<".">> \o NumStr(mi) \o <<".">> \o NumStr(pa)

\* The declared versions with a numeric triple of major ma, after any range prefix.
WithMajor(ma) ==
    {p \o Triple(ma, mi, pa) : p \in Prefixes, mi \in 0..MaxMinor, pa \in 0..MaxPatch}

WellFormed == UNION {WithMajor(ma) : ma \in Majors}

\* Declared versions that hold no digits.digits.digits triple.
Malformed ==
    { <<"l", "a", "t", "e", "s", "t">>,
      <<"*">>,
      <<"1", "9">>,
      <<"^", "1", "9", ".", "0">>,
      <<"1", "9", ".", "x", ".", "0">>,
      <<"1", "7", ".", ".", "0">> }

Declared == WellFormed \cup Malformed

\* package.json: unreadable or not JSON; or its dependencies, where an entry
\* may be missing (or the empty string, which is as falsy).
Manifests ==
    {[readable |-> TRUE, hasReact |-> TRUE, hasReactDom |-> TRUE, react |-> r, reactDom |-> d] :
        r \in Declared, d \in Declared}
    \cup
    {[readable |-> TRUE, hasReact |-> hr, hasReactDom |-> hd, react |-> <<>>, reactDom |-> <<>>] :
        hr \in BOOLEAN, hd \in BOOLEAN}
    \cup
    {[readable |-> FALSE, hasReact |-> FALSE, hasReactDom |-> FALSE, react |-> <<>>, reactDom |-> <<>>]}

\* node_modules/<pkg>/package.json: missing; present and unreadable; not JSON;
\* the JSON null; an object with no version; with a version that is no
\* string; with a version string.
InstalledVersions ==
    { <<"1", "9", ".", "0", ".", "0">>,
      <<"1", "7", ".", "0", ".", "2">>,
      <<"1", "8", ".", "2", ".", "0">>,
      <<"1", "9", "0", ".", "0", ".", "0">> }

InstalledFiles ==
    {[kind |-> k, version |-> <<>>] :
        k \in {"absent", "unreadable", "badjson", "jsonnull", "noversion", "numversion"}}
    \cup {[kind |-> "version", version |-> v] : v \in InstalledVersions}

NotRead == [kind |-> "notread", version |-> <<>>]

(***************************************************************************)
(* The validator: validateReactVersions.                                   *)
(***************************************************************************)
\* A mutant of IsCriticalPair: || written for &&
IsCriticalPairEither(rv, dv) == rv.major = BadReactMajor \/ dv.major = BadReactDomMajor

\* The specific problematic combination: react 19 with react-dom 17.
IsCriticalPair(rv, dv) == rv.major = BadReactMajor /\ dv.major = BadReactDomMajor

\* A mutant of MajorMismatch: the whole triples compared
MajorMismatchAnyField(rv, dv) == rv # dv

\* A major version mismatch.
MajorMismatch(rv, dv) == rv.major # dv.major

Dot19 == <<"1", "9", ".">>
Dot17 == <<"1", "7", ".">>

fileExists(f) == f.kind # "absent"
fileParses(f) == f.kind \notin {"unreadable", "badjson"}
hasVersionString(f) == f.kind = "version"

\* A mutant of InstalledCheck: the inner catch fails the run
InstalledCheckStrict(r, d) ==
    IF ~(fileExists(r) /\ fileExists(d)) THEN [log |-> <<>>, fail |-> FALSE]
    ELSE IF ~(fileParses(r) /\ fileParses(d)) \/ r.kind = "jsonnull" \/ d.kind = "jsonnull"
    THEN [log |-> <<"soft-warning">>, fail |-> TRUE]
    ELSE IF ~hasVersionString(r) THEN [log |-> <<"soft-warning">>, fail |-> TRUE]
    ELSE IF ~startsWith(r.version, Dot19) THEN [log |-> <<>>, fail |-> FALSE]
    ELSE IF ~hasVersionString(d) THEN [log |-> <<"soft-warning">>, fail |-> TRUE]
    ELSE [log |-> <<>>, fail |-> startsWith(d.version, Dot17)]

\* The check of the installed versions in node_modules, with its own
\* try/catch: what it prints, and whether it ends the run with exit code 1.
InstalledCheck(r, d) ==
    IF ~(fileExists(r) /\ fileExists(d))
    THEN [log |-> <<>>, fail |-> FALSE]
    ELSE IF ~(fileParses(r) /\ fileParses(d))
    THEN \* readFileSync or JSON.parse throws
         [log |-> <<"soft-warning">>, fail |-> FALSE]
    ELSE IF r.kind = "jsonnull"
    THEN \* installedReact.version throws before anything is printed
         [log |-> <<"soft-warning">>, fail |-> FALSE]
    ELSE IF d.kind = "jsonnull"
    THEN [log |-> <<"installed-react", "soft-warning">>, fail |-> FALSE]
    ELSE IF ~hasVersionString(r)
    THEN \* installedReact.version.startsWith is no function
         [log |-> <<"installed-react", "installed-react-dom", "soft-warning">>, fail |-> FALSE]
    ELSE IF ~startsWith(r.version, Dot19)
    THEN [log |-> <<"installed-react", "installed-react-dom">>, fail |-> FALSE]
    ELSE IF ~hasVersionString(d)
    THEN [log |-> <<"installed-react", "installed-react-dom", "soft-warning">>, fail |-> FALSE]
    ELSE IF startsWith(d.version, Dot17)
    THEN [log |-> <<"installed-react", "installed-react-dom", "installed-critical">>, fail |-> TRUE]
    ELSE [log |-> <<"installed-react", "installed-react-dom">>, fail |-> FALSE]

SmokeIdle ==
    /\ pc = "idle"
    /\ buildExists = FALSE
    /\ serve = "none"
    /\ delivered = {}
    /\ aborted = FALSE
    /\ data = <<>>
    /\ testPromise = [status |-> "pending", reason |-> "none"]
    /\ out = <<>>
    /\ exitCode = 0

InitValidator ==
    /\ vpc = "start"
    /\ manifest \in Manifests
    /\ reactVer = NoMatch
    /\ reactDomVer = NoMatch
    /\ installed = <<NotRead, NotRead>>
    /\ vout = <<>>
    /\ vexit = 0
    /\ SmokeIdle

\* Lines 13-28: read package.json and take the two declared versions.
ReadManifest ==
    /\ vpc = "start"
    /\ IF ~manifest.readable
       THEN /\ vout' = vout \o <<"validating", "failed: manifest">>
            /\ vpc' = "exited"
            /\ vexit' = 1
       ELSE IF \/ ~manifest.hasReact \/ manifest.react = <<>>
               \/ ~manifest.hasReactDom \/ manifest.reactDom = <<>>
       THEN /\ vout' = vout \o <<"validating", "failed: not found">>
            /\ vpc' = "exited"
            /\ vexit' = 1
       ELSE /\ vout' = vout \o <<"validating", "versions">>
            /\ vpc' = "parse"
            /\ vexit' = vexit
    /\ UNCHANGED <<manifest, reactVer, reactDomVer, installed, smokeVars>>

\* Lines 30-46: parse the version numbers.
ParseVersions ==
    /\ vpc = "parse"
    /\ reactVer' = getVersionNumber(manifest.react)
    /\ reactDomVer' = getVersionNumber(manifest.reactDom)
    /\ IF ~reactVer'.ok \/ ~reactDomVer'.ok
       THEN /\ vout' = vout \o <<"failed: unparseable">>
            /\ vpc' = "exited"
            /\ vexit' = 1
       ELSE /\ vpc' = "rules"
            /\ UNCHANGED <<vout, vexit>>
    /\ UNCHANGED <<manifest, installed, smokeVars>>

\* Lines 48-67: the critical pair, then the major version mismatch.
CheckDeclared ==
    /\ vpc = "rules"
    /\ IF IsCriticalPair(reactVer, reactDomVer)
       THEN /\ vout' = vout \o <<"critical">>
            /\ vpc' = "exited"
            /\ vexit' = 1
       ELSE /\ vout' = IF MajorMismatch(reactVer, reactDomVer)
                       THEN vout \o <<"mismatch-warning">> ELSE vout
            /\ vpc' = "installed"
            /\ vexit' = vexit
    /\ UNCHANGED <<manifest, reactVer, reactDomVer, installed, smokeVars>>

\* Lines 69-93: the installed packages' check, then the confirmation.  The
\* function returns and the process ends with exit code 0.
CheckInstalled ==
    /\ vpc = "installed"
    /\ \E r \in InstalledFiles, d \in InstalledFiles :
          LET res == InstalledCheck(r, d)
          IN  /\ installed' = <<r, d>>
              /\ IF res.fail
                 THEN /\ vout' = vout \o res.log
                      /\ vexit' = 1
                 ELSE /\ vout' = vout \o res.log \o <<"passed">>
                      /\ vexit' = 0
    /\ vpc' = "exited"
    /\ UNCHANGED <<manifest, reactVer, reactDomVer, smokeVars>>

NextValidator == ReadManifest \/ ParseVersions \/ CheckDeclared \/ CheckInstalled

SpecValidator == InitValidator /\ [][NextValidator]_vars

(***************************************************************************)
(* The runtime smoke test: testRuntime.                                    *)
(***************************************************************************)
\* The response body is a sequence of chunks, each one of these pieces of text.
RootDiv == "<div id=\"root\">"
RootAttr == "id=\"root\""
SigCannotRead == "Cannot read properties of undefined"
SigDispatcher == "ReactCurrentDispatcher"
SigReactError == "React error"
SigTypeError == "TypeError"
OtherText == "<p id='root'>hello</p>"

Chunks == {RootDiv, RootAttr, SigCannotRead, SigDispatcher, SigReactError, SigTypeError, OtherText}

\* The failure reasons: the messages of the errors testPromise is rejected with.
RootNotFound == "React app root element not found"
RuntimeErrorDetected == "React runtime error detected in HTML output"
RequestFailed == "HTTP request failed"
RequestTimeout == "HTTP request timeout"

\* needle occurs in the text of one chunk
occursIn(needle, chunk) == chunk = needle \/ (needle = RootAttr /\ chunk = RootDiv)

\* String.prototype.includes on the buffered body
includes(body, needle) == \E i \in 1..Len(body) : occursIn(needle, body[i])

Pending == [status |-> "pending", reason |-> "none"]
Fulfilled == [status |-> "fulfilled", reason |-> "none"]
Rejected(reason) == [status |-> "rejected", reason |-> reason]

\* A mutant of CheckBody: the error signatures looked for before the root marker
CheckBodyErrorsFirst(body) ==
    IF \/ includes(body, SigCannotRead) \/ includes(body, SigDispatcher)
       \/ includes(body, SigReactError) \/ includes(body, SigTypeError)
    THEN Rejected(RuntimeErrorDetected)
    ELSE IF includes(body, RootDiv) \/ includes(body, RootAttr)
    THEN Fulfilled
    ELSE Rejected(RootNotFound)

\* A mutant of CheckBody: 'TypeError' left out of the error signatures
CheckBodyNoTypeError(body) ==
    IF includes(body, RootDiv) \/ includes(body, RootAttr)
    THEN IF \/ includes(body, SigCannotRead) \/ includes(body, SigDispatcher)
            \/ includes(body, SigReactError)
         THEN Rejected(RuntimeErrorDetected)
         ELSE Fulfilled
    ELSE Rejected(RootNotFound)

\* The 'end' handler's verdict on the buffered body: what testPromise is
\* settled with.
CheckBody(body) ==
    IF includes(body, RootDiv) \/ includes(body, RootAttr)
    THEN IF \/ includes(body, SigCannotRead) \/ includes(body, SigDispatcher)
            \/ includes(body, SigReactError) \/ includes(body, SigTypeError)
         THEN Rejected(RuntimeErrorDetected)
         ELSE Fulfilled
    ELSE Rejected(RootNotFound)

\* A mutant of Settle: a later resolve or reject replaces the outcome
SettleOverwrite(p, outcome) == outcome

\* resolve() and reject() of testPromise: only the first call settles it.
Settle(p, outcome) == IF p.status = "pending" THEN outcome ELSE p

ValidatorIdle ==
    /\ vpc = "idle"
    /\ manifest = [readable |-> FALSE, hasReact |-> FALSE, hasReactDom |-> FALSE,
                   react |-> <<>>, reactDom |-> <<>>]
    /\ reactVer = NoMatch
    /\ reactDomVer = NoMatch
    /\ installed = <<NotRead, NotRead>>
    /\ vout = <<>>
    /\ vexit = 0

InitSmoke ==
    /\ pc = "start"
    /\ buildExists \in BOOLEAN
    /\ serve = "none"
    /\ delivered = {}
    /\ aborted = FALSE
    /\ data = <<>>
    /\ testPromise = Pending
    /\ out = <<>>
    /\ exitCode = 0
    /\ ValidatorIdle

\* A mutant of TestRuntimeStart: process.exit(1) left out of the missing
\* build directory's branch
TestRuntimeStartNoExit ==
    /\ pc = "start"
    /\ out' = IF buildExists THEN out \o <<"testing">>
              ELSE out \o <<"testing", "build-not-found">>
    /\ serve' = "running"
    /\ pc' = "warmup"
    /\ UNCHANGED <<buildExists, delivered, aborted, data, testPromise, exitCode, validatorVars>>

\* Lines 16-42: the build directory's check, then the spawn of the server
\* and the start of the 2 second wait.
TestRuntimeStart ==
    /\ pc = "start"
    /\ IF ~buildExists
       THEN /\ out' = out \o <<"testing", "build-not-found">>
            /\ pc' = "exited"
            /\ exitCode' = 1
            /\ serve' = serve
       ELSE /\ out' = out \o <<"testing">>
            /\ serve' = "running"
            /\ pc' = "warmup"
            /\ exitCode' = exitCode
    /\ UNCHANGED <<buildExists, delivered, aborted, data, testPromise, validatorVars>>

\* Lines 42-86: the wait is over; the request is issued, its handlers are
\* registered and testRuntime awaits testPromise.
WarmupDone ==
    /\ pc = "warmup"
    /\ pc' = "awaiting"
    /\ UNCHANGED <<buildExists, serve, delivered, aborted, data, testPromise, out, exitCode,
                   validatorVars>>

\* Lines 52-54: a chunk of the response body arrives.
ResOnData ==
    /\ pc = "awaiting"
    /\ delivered = {}
    /\ Len(data) < MaxChunks
    /\ \E chunk \in Chunks : data' = Append(data, chunk)
    /\ UNCHANGED <<pc, buildExists, serve, delivered, aborted, testPromise, out, exitCode,
                   validatorVars>>

\* Lines 56-73: the response has ended.  The handlers of the request run
\* before testRuntime resumes from its await; the model does not order an
\* 'end' or 'error' against a timeout that has fired, so either may still
\* be delivered after it.
ResOnEnd ==
    /\ pc = "awaiting"
    /\ "end" \notin delivered
    /\ "error" \notin delivered
    /\ delivered' = delivered \cup {"end"}
    /\ out' = IF includes(data, RootDiv) \/ includes(data, RootAttr)
              THEN out \o <<"basic-html-ok">> ELSE out
    /\ testPromise' = Settle(testPromise, CheckBody(data))
    /\ UNCHANGED <<pc, buildExists, serve, aborted, data, exitCode, validatorVars>>

\* Lines 76-78: the request has failed.
ReqOnError ==
    /\ pc = "awaiting"
    /\ "error" \notin delivered
    /\ "end" \notin delivered
    /\ delivered' = delivered \cup {"error"}
    /\ testPromise' = Settle(testPromise, Rejected(RequestFailed))
    /\ UNCHANGED <<pc, buildExists, serve, aborted, data, out, exitCode, validatorVars>>

\* Lines 80-83: 5 seconds without a completed response.
ReqOnTimeout ==
    /\ pc = "awaiting"
    /\ delivered = {}
    /\ delivered' = {"timeout"}
    /\ aborted' = TRUE
    /\ testPromise' = Settle(testPromise, Rejected(RequestTimeout))
    /\ UNCHANGED <<pc, buildExists, serve, data, out, exitCode, validatorVars>>

\* Lines 86-97: testRuntime goes on after the await.  process.exit(1) in the
\* catch block ends the process there and then.
AwaitTestPromise ==
    /\ pc = "awaiting"
    /\ testPromise.status # "pending"
    /\ IF testPromise.status = "fulfilled"
       THEN /\ out' = out \o <<"passed">>
            /\ serve' = "killed"
            /\ pc' = "returned"
            /\ exitCode' = exitCode
       ELSE /\ out' = out \o <<"runtime-test-failed", testPromise.reason, "hints">>
            /\ pc' = "exited"
            /\ exitCode' = 1
            /\ serve' = serve
    /\ UNCHANGED <<buildExists, delivered, aborted, data, testPromise, validatorVars>>

\* Lines 98-103: testRuntime() has resolved; nothing is left to run and the
\* process ends with exit code 0.
ProcessExit ==
    /\ pc = "returned"
    /\ pc' = "exited"
    /\ exitCode' = 0
    /\ UNCHANGED <<buildExists, serve, delivered, aborted, data, testPromise, out,
                   validatorVars>>

NextSmoke ==
    \/ TestRuntimeStart
    \/ WarmupDone
    \/ ResOnData
    \/ ResOnEnd
    \/ ReqOnError
    \/ ReqOnTimeout
    \/ AwaitTestPromise
    \/ ProcessExit

SpecSmoke == InitSmoke /\ [][NextSmoke]_vars

(***************************************************************************)
(* The claims.                                                             *)
(***************************************************************************)
printed(log, line) == \E i \in 1..Len(log) : log[i] = line

\* The smoke test reported this failure reason.
reported(reason) ==
    \E i \in 1..Len(out) : i < Len(out) /\ out[i] = "runtime-test-failed" /\ out[i + 1] = reason

\* Both versions are declared.
bothDeclared == manifest.readable /\ manifest.hasReact /\ manifest.hasReactDom

\* The major a well-formed declared version was written with.
WrittenMajor == [s \in WellFormed |-> CHOOSE ma \in Majors : s \in WithMajor(ma)]

\* Both versions are declared with a numeric triple, of majors ma and mb.
declaredMajors(ma, mb) ==
    /\ bothDeclared
    /\ manifest.react \in WellFormed /\ manifest.reactDom \in WellFormed
    /\ WrittenMajor[manifest.react] = ma
    /\ WrittenMajor[manifest.reactDom] = mb

\* Both installed files were read and tell react 19.x with react-dom 17.x.
installedBadPair ==
    /\ installed[1].kind = "version" /\ installed[2].kind = "version"
    /\ startsWith(installed[1].version, <<"1", "9", ".">>)
    /\ startsWith(installed[2].version, <<"1", "7", ".">>)

validatorDone == vpc = "exited"
smokeDone == pc = "exited"

\* The response ended on a request that was not aborted: a complete body.
completeResponse == "end" \in delivered /\ ~aborted

hasRootMarker == \E i \in 1..Len(data) : data[i] \in {RootDiv, RootAttr}
hasErrorSignature ==
    \E i \in 1..Len(data) : data[i] \in {SigCannotRead, SigDispatcher, SigReactError, SigTypeError}
hasTypeError == \E i \in 1..Len(data) : data[i] = SigTypeError

\* C1: once the server has been spawned, serve.kill() has been called by the
\* time the script has exited, on every exit path.
C1_KilledBeforeExit == (smokeDone /\ buildExists) => serve = "killed"

\* C2: with no build directory the script exits with code 1 at once: no
\* server is ever spawned and no request is ever issued.
C2_NoBuildNoServer ==
    ~buildExists =>
        /\ serve = "none"
        /\ pc \in {"start", "exited"}
        /\ delivered = {} /\ data = <<>> /\ testPromise = Pending
        /\ smokeDone => (exitCode = 1 /\ printed(out, "build-not-found"))

C2_Witness == ~buildExists /\ smokeDone /\ exitCode = 1

\* C3: react of major 19 with react-dom of major 17, whatever the minor, the
\* patch and the range prefix: exit code 1 after the CRITICAL diagnostic, and
\* the confirmation is never printed.
C3_CriticalPairFails ==
    declaredMajors(BadReactMajor, BadReactDomMajor) =>
        /\ ~printed(vout, "passed")
        /\ vpc # "installed"
        /\ validatorDone => (vexit = 1 /\ printed(vout, "critical"))

C3_Witness ==
    /\ validatorDone
    /\ manifest.readable
    /\ manifest.react = <<"^">> \o Triple(BadReactMajor, 1, 0)
    /\ manifest.reactDom = <<">", "=">> \o Triple(BadReactDomMajor, 0, 1)
    /\ vexit = 1
    /\ printed(vout, "critical")

equalMajors == \E ma \in Majors : declaredMajors(ma, ma)

\* C4, as stated: equal majors pass with exit code 0 and no mismatch
\* warning, whatever the installed packages are.
C4_EqualMajorsPass ==
    (validatorDone /\ equalMajors) =>
        (vexit = 0 /\ printed(vout, "passed") /\ ~printed(vout, "mismatch-warning"))

\* C4, amended: equal majors give no mismatch warning, and pass with exit
\* code 0 unless the installed packages are react 19.x with react-dom 17.x,
\* which ends the run with exit code 1.
C4_EqualMajorsPassUnlessInstalledBad ==
    (validatorDone /\ equalMajors) =>
        /\ ~printed(vout, "mismatch-warning")
        /\ ~printed(vout, "critical")
        /\ IF installedBadPair
           THEN vexit = 1 /\ printed(vout, "installed-critical") /\ ~printed(vout, "passed")
           ELSE vexit = 0 /\ printed(vout, "passed")

C4_Witness ==
    /\ validatorDone /\ equalMajors
    /\ manifest.react # manifest.reactDom
    /\ vexit = 0 /\ printed(vout, "passed")

otherMismatch ==
    \E ma \in Majors, mb \in Majors :
        /\ ma # mb
        /\ ~(ma = BadReactMajor /\ mb = BadReactDomMajor)
        /\ declaredMajors(ma, mb)

\* C5, as stated: majors that differ, other than (19, 17), give the mismatch
\* warning and exit code 0, whatever the installed packages are.
C5_MismatchWarnsAndPasses ==
    (validatorDone /\ otherMismatch) =>
        (vexit = 0 /\ printed(vout, "mismatch-warning"))

\* C5, amended: majors that differ, other than (19, 17), give the mismatch
\* warning, and exit code 0 unless the installed packages are react 19.x
\* with react-dom 17.x, which ends the run with exit code 1.
C5_MismatchWarnsUnlessInstalledBad ==
    (validatorDone /\ otherMismatch) =>
        /\ printed(vout, "mismatch-warning")
        /\ ~printed(vout, "critical")
        /\ IF installedBadPair
           THEN vexit = 1 /\ printed(vout, "installed-critical") /\ ~printed(vout, "passed")
           ELSE vexit = 0 /\ printed(vout, "passed")

C5_Witness ==
    /\ validatorDone /\ otherMismatch
    /\ vexit = 0 /\ printed(vout, "mismatch-warning") /\ printed(vout, "passed")

NoTriple == Malformed \cup {<<>>}

eitherMalformed ==
    /\ bothDeclared
    /\ manifest.react \in NoTriple \/ manifest.reactDom \in NoTriple

\* C6: a declared version with no digits.digits.digits triple ends the run
\* with exit code 1 through the error handler; the rule table, the installed
\* packages' check and the confirmation are not reached.
C6_MalformedFails ==
    eitherMalformed =>
        /\ vpc \notin {"rules", "installed"}
        /\ installed = <<NotRead, NotRead>>
        /\ \A line \in {"critical", "mismatch-warning", "installed-react", "installed-critical",
                        "soft-warning", "passed"} : ~printed(vout, line)
        /\ validatorDone =>
              /\ vexit = 1
              /\ vout[Len(vout)] \in {"failed: unparseable", "failed: not found"}

C6_Witness ==
    /\ validatorDone
    /\ manifest.react \in WellFormed
    /\ manifest.reactDom \in Malformed
    /\ vexit = 1
    /\ vout[Len(vout)] = "failed: unparseable"

installedCheckRan == installed # <<NotRead, NotRead>>

\* C9: the installed packages' check is best effort: it ends the run with
\* exit code 1 only when both files were read and tell react 19.x with
\* react-dom 17.x; a missing, unreadable or unparseable file, or one with no
\* usable version, leaves the exit code of the manifest checks (0, as the
\* check is reached only when they pass) and prints at most a soft warning.
C9_InstalledCheckBestEffort ==
    (validatorDone /\ installedCheckRan) =>
        /\ vexit = 1 <=> installedBadPair
        /\ ~installedBadPair => (printed(vout, "passed") /\ ~printed(vout, "installed-critical"))
        /\ (~fileExists(installed[1]) \/ ~fileExists(installed[2])) =>
              (~printed(vout, "soft-warning") /\ ~printed(vout, "installed-react"))

C9_Witness ==
    /\ validatorDone
    /\ installed[1].kind = "version" /\ startsWith(installed[1].version, <<"1", "9", ".">>)
    /\ installed[2].kind = "noversion"
    /\ vexit = 0
    /\ printed(vout, "soft-warning")

\* C7: on a complete response body the outcome follows the ordered rule: no
\* root marker -> 'React app root element not found'; else an error
\* signature -> 'React runtime error detected'; else pass.  The failures
\* exit with code 1, and only the pass prints the confirmation and exits 0.
C7_OrderedVerdict ==
    completeResponse =>
        /\ pc = "returned" => (hasRootMarker /\ ~hasErrorSignature)
        /\ printed(out, "passed") => (hasRootMarker /\ ~hasErrorSignature)
        /\ smokeDone =>
              IF ~hasRootMarker
              THEN exitCode = 1 /\ reported(RootNotFound) /\ ~printed(out, "passed")
              ELSE IF hasErrorSignature
              THEN exitCode = 1 /\ reported(RuntimeErrorDetected) /\ ~printed(out, "passed")
              ELSE exitCode = 0 /\ printed(out, "passed")

C7_Witness ==
    /\ completeResponse /\ smokeDone
    /\ data = <<SigDispatcher, RootDiv>>
    /\ exitCode = 1 /\ reported(RuntimeErrorDetected)

\* C8, as stated: a body with 'TypeError' in it exits with code 1 and the
\* reason reported is the 'runtime error detected' one.
C8_TypeErrorReportsRuntimeError ==
    (completeResponse /\ smokeDone /\ hasTypeError) =>
        (exitCode = 1 /\ reported(RuntimeErrorDetected))

\* C8, amended: a complete body with 'TypeError' in it exits with code 1;
\* the reason reported is the 'runtime error detected' one when the body
\* also holds the root marker, and 'root element not found' when it does not.
C8_TypeErrorFails ==
    (completeResponse /\ hasTypeError) =>
        /\ pc # "returned"
        /\ ~printed(out, "passed")
        /\ smokeDone =>
              /\ exitCode = 1
              /\ IF hasRootMarker THEN reported(RuntimeErrorDetected)
                 ELSE reported(RootNotFound)

C8_Witness ==
    /\ completeResponse /\ smokeDone /\ hasTypeError /\ hasRootMarker
    /\ exitCode = 1 /\ reported(RuntimeErrorDetected)

\* C10: when the request's timeout fires before the response has completed,
\* the request is aborted and the run fails with 'HTTP request timeout' and
\* exit code 1; an 'error' or 'end' event delivered afterwards neither
\* replaces the reason nor turns the run into a pass.
C10_TimeoutSettlesOnce ==
    "timeout" \in delivered =>
        /\ aborted
        /\ testPromise = Rejected(RequestTimeout)
        /\ pc # "returned"
        /\ ~printed(out, "passed")
        /\ smokeDone => (exitCode = 1 /\ reported(RequestTimeout))

C10_Witness ==
    /\ "timeout" \in delivered
    /\ smokeDone
    /\ exitCode = 1
    /\ reported(RequestTimeout)
====
